---- MODULE Spec2Model ----
(***************************************************************************)
(* The ingestion / decode / publish pipeline of server.py:                 *)
(*   udp_listener_thread  -> data_buffer -> process_buffer_thread          *)
(*                        -> latest_sensor_matrix -> get_latest_matrix     *)
(* together with the __main__ block that starts the two daemon threads,    *)
(* runs the Flask server and shuts the pipeline down.                      *)
(*                                                                         *)
(* A bytes object is a sequence of numbers 0..255.  Python's None is the   *)
(* empty sequence None and a present value x is Some(x) == <<x>>.          *)
(* A float v / 10.0 is the decimal it denotes: sign, whole part and one    *)
(* fractional digit.  The list objects the decoder builds are kept in      *)
(* heap, in order of creation, so that object identity is part of the      *)
(* state.  The sender's pack and the /sensor_data route, which share no    *)
(* state with the pipeline, have specifications of their own.              *)
(***************************************************************************)
EXTENDS Integers, Sequences, FiniteSets, TLC

(***************************************************************************)
(* Bounds of the model.                                                    *)
(***************************************************************************)
\* side of the matrix in the model (server.py uses 128)
MATRIX_N == 2
\* frames the Transfer Queue accepts in one run
MaxFrames == 2
\* concurrent /latest_matrix requests
NumReaders == 1
\* readings of the clock after the first
MaxTime == 2

(***************************************************************************)
(* Configuration and constants, server.py lines 15-17 and 48.              *)
(***************************************************************************)
EXPECTED_ARRAY_SIZE == MATRIX_N * MATRIX_N

EXPECTED_SIZE_BYTES == EXPECTED_ARRAY_SIZE * 2

\* recvfrom(EXPECTED_SIZE_BYTES + 100)
RECV_SLACK == 100

RecvBufSizeExact == EXPECTED_SIZE_BYTES

RecvBufSize == EXPECTED_SIZE_BYTES + RECV_SLACK

INT16_MIN == -32768

INT16_MAX == 32767

None == << >>

Some(x) == << x >>

Abs(v) == IF v < 0 THEN -v ELSE v

Min(a, b) == IF a < b THEN a ELSE b

(***************************************************************************)
(* Frame codec: struct.pack / struct.unpack with format '<{n}h' and the    *)
(* division by 10.0.                                                       *)
(***************************************************************************)
\* struct.pack raises struct.error for a value outside the int16 range
PackOk(values) ==
    /\ Len(values) = EXPECTED_ARRAY_SIZE
    /\ \A i \in 1..Len(values) : values[i] >= INT16_MIN /\ values[i] <= INT16_MAX

\* two's complement, low byte first
PackByte(values, k) ==
    LET v == values[(k + 1) \div 2]
        u == IF v < 0 THEN v + 65536 ELSE v
    IN  IF k % 2 = 1 THEN u % 256 ELSE u \div 256

Pack(values) == [k \in 1..(2 * Len(values)) |-> PackByte(values, k)]

\* the lenient variant: struct.unpack_from accepts any buffer that is long enough
UnpackOkAtLeast(buf) == Len(buf) >= EXPECTED_SIZE_BYTES

\* struct.unpack raises struct.error unless the buffer has exactly calcsize bytes
UnpackOk(buf) == Len(buf) = EXPECTED_SIZE_BYTES

\* format '<{n}H': the two bytes read as an unsigned short
UnpackShortUnsigned(buf, i) == buf[2 * i - 1] + 256 * buf[2 * i]

UnpackShort(buf, i) ==
    LET u == buf[2 * i - 1] + 256 * buf[2 * i]
    IN  IF u >= 32768 THEN u - 65536 ELSE u

Unpack(buf) == [i \in 1..EXPECTED_ARRAY_SIZE |-> UnpackShort(buf, i)]

\* v / 10.0
Div10(v) == [neg |-> v < 0, whole |-> Abs(v) \div 10, tenth |-> Abs(v) % 10]

Unscale(scaled) == [i \in 1..Len(scaled) |-> Div10(scaled[i])]

\* decode of a whole buffer: the Grid, or None when struct.unpack raises
Decode(buf) == IF UnpackOk(buf) THEN Some(Unscale(Unpack(buf))) ELSE None

(***************************************************************************)
(* The datagrams the network may deliver.                                  *)
(***************************************************************************)
ZeroSamples == [i \in 1..EXPECTED_ARRAY_SIZE |-> 0]

PeakSamples == [i \in 1..EXPECTED_ARRAY_SIZE |-> IF i = 1 THEN 1000 ELSE 0]

MixedSamples == [i \in 1..EXPECTED_ARRAY_SIZE |-> IF i % 2 = 1 THEN -15 ELSE 32767]

\* the frames of the network: the two of the spec's scenario
SampleArrays == {ZeroSamples, PeakSamples}

Frames == {Pack(s) : s \in SampleArrays}

Zeros(n) == [i \in 1..n |-> 0]

Noise ==
    { Zeros(1),
      Pack(PeakSamples) \o <<7>>,
      Pack(MixedSamples) \o Zeros(RECV_SLACK + 1) }

Datagrams == Frames \cup Noise

\* recvfrom(bufsize) returns at most bufsize bytes of the datagram
Recvfrom(d, bufsize) == SubSeq(d, 1, Min(Len(d), bufsize))

Readers == 1..NumReaders

VARIABLES
    mpc,                  \* __main__: where the main thread is
    stop_listener,        \* threading.Event
    data_buffer,          \* Queue(): the raw frames, oldest first
    latest_sensor_matrix, \* None or Some(list of floats)
    lpc,                  \* udp_listener_thread: where it is
    sock,                 \* the listener's socket: "none", "open", "bound", "closed"
    l_binary_data,        \* udp_listener_thread's binary_data
    dpc,                  \* process_buffer_thread: where it is
    p_binary_data,        \* process_buffer_thread's binary_data
    sensor_array_scaled,  \* process_buffer_thread's tuple of shorts
    sensor_array,         \* process_buffer_thread's list of floats
    sample_count,         \* process_buffer_thread's counter
    rpc,                  \* get_latest_matrix, per request thread
    response,             \* the last response of each request thread
    sent,                 \* history: the datagram behind l_binary_data, as sent
    inLog,                \* history: every buffer put on data_buffer, in order
    outLog,               \* history: the outcome of every decode, in order
    now,                  \* the clock datetime.now() reads
    timeLog,              \* history: the clock at every outcome of outLog
    heap,                 \* the list objects line 85 created: heap[k] is what the k-th holds
    latest_id,            \* which of them latest_sensor_matrix is bound to, 0 for None
    sender_array_scaled,  \* generate_and_send_udp's sensor_array_scaled
    synth_response        \* the last response of send_sensor_data

vars == << mpc, stop_listener, data_buffer, latest_sensor_matrix, lpc, sock,
           l_binary_data, dpc, p_binary_data, sensor_array_scaled, sensor_array,
           sample_count, rpc, response, sent, inLog, outLog, now, timeLog, heap, latest_id,
           sender_array_scaled, synth_response >>

mainVars == << mpc, stop_listener >>

listenerVars == << lpc, sock, l_binary_data, sent >>

decoderVars == << dpc, p_binary_data, sensor_array_scaled, sensor_array,
                  sample_count, outLog, timeLog, heap, latest_id >>

readerVars == << rpc, response >>

\* state outside the pipeline: the sender's array and the /sensor_data response
outsideVars == << sender_array_scaled, synth_response >>

NoSynthResponse == [status |-> 0, body |-> None]

NoResponse == [status |-> 0, matrix |-> None, timestamp |-> None]

Init ==
    /\ mpc = "start_listener"
    /\ stop_listener = FALSE
    /\ data_buffer = << >>
    /\ latest_sensor_matrix = None
    /\ lpc = "unstarted"
    /\ sock = "none"
    /\ l_binary_data = None
    /\ dpc = "unstarted"
    /\ p_binary_data = None
    /\ sensor_array_scaled = None
    /\ sensor_array = None
    /\ sample_count = 0
    /\ rpc = [r \in Readers |-> "idle"]
    /\ response = [r \in Readers |-> NoResponse]
    /\ sent = None
    /\ inLog = << >>
    /\ outLog = << >>
    /\ timeLog = << >>
    /\ heap = << >>
    /\ latest_id = 0
    /\ now = 0
    /\ sender_array_scaled = None
    /\ synth_response = NoSynthResponse

(***************************************************************************)
(* udp_listener_thread                                                     *)
(***************************************************************************)
\* socket.socket(...); sock.bind(...); sock.settimeout(0.5); OSError: return
ListenerBind ==
    /\ lpc = "bind"
    /\ \/ sock' = "bound" /\ lpc' = "loop"
       \/ sock' = "open" /\ lpc' = "done"
    /\ UNCHANGED << now, outsideVars, mainVars, data_buffer, latest_sensor_matrix, l_binary_data, sent,
                    decoderVars, readerVars, inLog >>

\* while not stop_listener.is_set(): ... ; after the loop, sock.close()
ListenerLoop ==
    /\ lpc = "loop"
    /\ lpc' = IF stop_listener THEN "close" ELSE "recv"
    /\ UNCHANGED << now, outsideVars, mainVars, data_buffer, latest_sensor_matrix, sock, l_binary_data,
                    sent, decoderVars, readerVars, inLog >>

\* binary_data, addr = sock.recvfrom(EXPECTED_SIZE_BYTES + 100)
ListenerRecvData ==
    /\ lpc = "recv"
    /\ \E d \in Datagrams :
          /\ Len(inLog) < MaxFrames \/ Len(Recvfrom(d, RecvBufSize)) # EXPECTED_SIZE_BYTES
          /\ l_binary_data' = Some(Recvfrom(d, RecvBufSize))
          /\ sent' = Some(d)
    /\ lpc' = "check"
    /\ UNCHANGED << now, outsideVars, mainVars, data_buffer, latest_sensor_matrix, sock,
                    decoderVars, readerVars, inLog >>

\* a socket without settimeout: recvfrom never raises socket.timeout
ListenerRecvBlocking ==
    /\ lpc = "recv"
    /\ FALSE
    /\ UNCHANGED vars

\* except socket.timeout: continue
ListenerRecvTimeout ==
    /\ lpc = "recv"
    /\ lpc' = "loop"
    /\ UNCHANGED << now, outsideVars, mainVars, data_buffer, latest_sensor_matrix, sock, l_binary_data,
                    sent, decoderVars, readerVars, inLog >>

\* a handler that also ends the whole pipeline: stop_listener.set(); break
ListenerRecvErrorSetsStop ==
    /\ lpc = "recv"
    /\ lpc' = "close"
    /\ stop_listener' = TRUE
    /\ UNCHANGED << now, outsideVars, mpc, data_buffer, latest_sensor_matrix, sock,
                    l_binary_data, sent, decoderVars, readerVars, inLog >>

\* except Exception: break
ListenerRecvError ==
    /\ lpc = "recv"
    /\ lpc' = "close"
    /\ UNCHANGED << now, outsideVars, mainVars, data_buffer, latest_sensor_matrix, sock, l_binary_data,
                    sent, decoderVars, readerVars, inLog >>

\* a queue of one slot filled with put_nowait: a frame that finds it full is lost
ListenerCheckDropping ==
    /\ lpc = "check"
    /\ IF Len(l_binary_data[1]) = EXPECTED_SIZE_BYTES
          THEN /\ data_buffer' = IF data_buffer = << >>
                                    THEN Append(data_buffer, l_binary_data[1])
                                    ELSE data_buffer
               /\ inLog' = Append(inLog, l_binary_data[1])
          ELSE UNCHANGED << data_buffer, inLog >>
    /\ l_binary_data' = None
    /\ sent' = None
    /\ lpc' = "loop"
    /\ UNCHANGED << now, outsideVars, mainVars, latest_sensor_matrix, sock, decoderVars, readerVars >>

\* if len(binary_data) == EXPECTED_SIZE_BYTES: data_buffer.put(binary_data)
ListenerCheck ==
    /\ lpc = "check"
    /\ IF Len(l_binary_data[1]) = EXPECTED_SIZE_BYTES
          THEN /\ data_buffer' = Append(data_buffer, l_binary_data[1])
               /\ inLog' = Append(inLog, l_binary_data[1])
          ELSE UNCHANGED << data_buffer, inLog >>
    /\ l_binary_data' = None
    /\ sent' = None
    /\ lpc' = "loop"
    /\ UNCHANGED << now, outsideVars, mainVars, latest_sensor_matrix, sock, decoderVars, readerVars >>

\* a listener that binds again after a socket error
ListenerCloseRestart ==
    /\ lpc = "close"
    /\ sock' = "closed"
    /\ lpc' = IF stop_listener THEN "done" ELSE "bind"
    /\ UNCHANGED << now, outsideVars, mainVars, data_buffer, latest_sensor_matrix, l_binary_data, sent,
                    decoderVars, readerVars, inLog >>

\* sock.close()
ListenerClose ==
    /\ lpc = "close"
    /\ sock' = "closed"
    /\ lpc' = "done"
    /\ UNCHANGED << now, outsideVars, mainVars, data_buffer, latest_sensor_matrix, l_binary_data, sent,
                    decoderVars, readerVars, inLog >>

Listener ==
    \/ ListenerBind
    \/ ListenerLoop
    \/ ListenerRecvData
    \/ ListenerRecvTimeout
    \/ ListenerRecvError
    \/ ListenerCheck
    \/ ListenerClose

(***************************************************************************)
(* process_buffer_thread                                                   *)
(***************************************************************************)
\* a loop that clears the published matrix when it stops
DecoderLoopClearing ==
    /\ dpc = "loop"
    /\ dpc' = IF stop_listener THEN "done" ELSE "get"
    /\ latest_sensor_matrix' = IF stop_listener THEN None ELSE latest_sensor_matrix
    /\ UNCHANGED << now, outsideVars, mainVars, heap, latest_id, data_buffer, listenerVars,
                    p_binary_data, sensor_array_scaled, sensor_array, sample_count,
                    outLog, timeLog, readerVars, inLog >>

\* while not stop_listener.is_set():
DecoderLoop ==
    /\ dpc = "loop"
    /\ dpc' = IF stop_listener THEN "done" ELSE "get"
    /\ UNCHANGED << now, outsideVars, mainVars, heap, latest_id, data_buffer,
                    latest_sensor_matrix, listenerVars,
                    p_binary_data, sensor_array_scaled, sensor_array, sample_count,
                    outLog, timeLog, readerVars, inLog >>

\* a get that takes the newest buffer, as a LifoQueue would
DecoderGetLifo ==
    /\ dpc = "get"
    /\ IF data_buffer # << >>
          THEN /\ p_binary_data' = Some(data_buffer[Len(data_buffer)])
               /\ data_buffer' = SubSeq(data_buffer, 1, Len(data_buffer) - 1)
               /\ dpc' = "unpack"
          ELSE /\ dpc' = "loop"
               /\ UNCHANGED << p_binary_data, data_buffer >>
    /\ UNCHANGED << now, outsideVars, mainVars, heap, latest_id, latest_sensor_matrix,
                    listenerVars, sensor_array_scaled,
                    sensor_array, sample_count, outLog, timeLog, readerVars, inLog >>

\* a handler that leaves the loop when the queue is empty: except Empty: break
DecoderGetFatal ==
    /\ dpc = "get"
    /\ IF data_buffer # << >>
          THEN /\ p_binary_data' = Some(Head(data_buffer))
               /\ data_buffer' = Tail(data_buffer)
               /\ dpc' = "unpack"
          ELSE /\ dpc' = "done"
               /\ UNCHANGED << p_binary_data, data_buffer >>
    /\ UNCHANGED << now, outsideVars, mainVars, heap, latest_id, latest_sensor_matrix,
                    listenerVars, sensor_array_scaled,
                    sensor_array, sample_count, outLog, timeLog, readerVars, inLog >>

\* binary_data = data_buffer.get(timeout=0.1); except Empty: continue
DecoderGet ==
    /\ dpc = "get"
    /\ IF data_buffer # << >>
          THEN /\ p_binary_data' = Some(Head(data_buffer))
               /\ data_buffer' = Tail(data_buffer)
               /\ dpc' = "unpack"
          ELSE /\ dpc' = "loop"
               /\ UNCHANGED << p_binary_data, data_buffer >>
    /\ UNCHANGED << now, outsideVars, mainVars, heap, latest_id, latest_sensor_matrix,
                    listenerVars, sensor_array_scaled,
                    sensor_array, sample_count, outLog, timeLog, readerVars, inLog >>

\* a handler that leaves the loop on struct.error
DecoderUnpackFatal ==
    /\ dpc = "unpack"
    /\ IF UnpackOk(p_binary_data[1])
          THEN /\ sensor_array_scaled' = Some(Unpack(p_binary_data[1]))
               /\ dpc' = "convert"
               /\ UNCHANGED << outLog, timeLog >>
          ELSE /\ outLog' = Append(outLog, None)
               /\ timeLog' = Append(timeLog, now)
               /\ dpc' = "done"
               /\ UNCHANGED sensor_array_scaled
    /\ p_binary_data' = None
    /\ UNCHANGED << now, outsideVars, mainVars, heap, latest_id, data_buffer,
                    latest_sensor_matrix, listenerVars,
                    sensor_array, sample_count, readerVars, inLog >>

\* sensor_array_scaled = struct.unpack(format_string, binary_data)
\* except struct.error: print; the loop goes on
DecoderUnpack ==
    /\ dpc = "unpack"
    /\ IF UnpackOk(p_binary_data[1])
          THEN /\ sensor_array_scaled' = Some(Unpack(p_binary_data[1]))
               /\ dpc' = "convert"
               /\ UNCHANGED << outLog, timeLog >>
          ELSE /\ outLog' = Append(outLog, None)
               /\ timeLog' = Append(timeLog, now)
               /\ dpc' = "loop"
               /\ UNCHANGED sensor_array_scaled
    /\ p_binary_data' = None
    /\ UNCHANGED << now, outsideVars, mainVars, heap, latest_id, data_buffer,
                    latest_sensor_matrix, listenerVars,
                    sensor_array, sample_count, readerVars, inLog >>

\* a decoder that fills the list the global is bound to instead of building a new one
DecoderConvertInPlace ==
    /\ dpc = "convert"
    /\ sensor_array' = Some(Unscale(sensor_array_scaled[1]))
    /\ IF latest_id = 0
          THEN /\ heap' = Append(heap, Unscale(sensor_array_scaled[1]))
               /\ UNCHANGED latest_sensor_matrix
          ELSE /\ heap' = [heap EXCEPT ![latest_id] = Unscale(sensor_array_scaled[1])]
               /\ latest_sensor_matrix' = Some(Unscale(sensor_array_scaled[1]))
    /\ sensor_array_scaled' = None
    /\ dpc' = "publish"
    /\ UNCHANGED << now, outsideVars, mainVars, latest_id, data_buffer, listenerVars,
                    p_binary_data, sample_count, outLog, timeLog, readerVars, inLog >>

\* sensor_array = [v / 10.0 for v in sensor_array_scaled]
DecoderConvert ==
    /\ dpc = "convert"
    /\ sensor_array' = Some(Unscale(sensor_array_scaled[1]))
    /\ heap' = Append(heap, Unscale(sensor_array_scaled[1]))
    /\ sensor_array_scaled' = None
    /\ dpc' = "publish"
    /\ UNCHANGED << now, outsideVars, mainVars, latest_id, data_buffer, latest_sensor_matrix,
                    listenerVars,
                    p_binary_data, sample_count, outLog, timeLog, readerVars, inLog >>

\* a publish that binds the global to the list before the list is filled
DecoderPublishPartial ==
    /\ dpc = "publish"
    /\ latest_id' = Len(heap)
    /\ IF latest_sensor_matrix # Some(SubSeq(sensor_array[1], 1, 1))
          THEN /\ latest_sensor_matrix' = Some(SubSeq(sensor_array[1], 1, 1))
               /\ UNCHANGED << dpc, sample_count, outLog, timeLog, sensor_array >>
          ELSE /\ latest_sensor_matrix' = sensor_array
               /\ sample_count' = sample_count + 1
               /\ outLog' = Append(outLog, sensor_array)
               /\ timeLog' = Append(timeLog, now)
               /\ sensor_array' = None
               /\ dpc' = "loop"
    /\ UNCHANGED << now, outsideVars, mainVars, heap, data_buffer, listenerVars, p_binary_data,
                    sensor_array_scaled, readerVars, inLog >>

\* latest_sensor_matrix = sensor_array; sample_count += 1; data_buffer.task_done()
DecoderPublish ==
    /\ dpc = "publish"
    /\ latest_sensor_matrix' = sensor_array
    /\ latest_id' = Len(heap)
    /\ sample_count' = sample_count + 1
    /\ outLog' = Append(outLog, sensor_array)
    /\ timeLog' = Append(timeLog, now)
    /\ sensor_array' = None
    /\ dpc' = "loop"
    /\ UNCHANGED << now, outsideVars, mainVars, heap, data_buffer, listenerVars, p_binary_data,
                    sensor_array_scaled, readerVars, inLog >>

Decoder ==
    \/ DecoderLoop
    \/ DecoderGet
    \/ DecoderUnpack
    \/ DecoderConvert
    \/ DecoderPublish

(***************************************************************************)
(* get_latest_matrix, one request thread r                                 *)
(***************************************************************************)
\* a handler without the None test: it always builds the 200 response
ReaderCheckUnguarded(r) ==
    /\ mpc = "run"
    /\ rpc[r] = "idle"
    /\ rpc' = [rpc EXCEPT ![r] = "build"]
    /\ UNCHANGED << now, outsideVars, mainVars, data_buffer, latest_sensor_matrix, listenerVars,
                    decoderVars, response, inLog >>

\* if latest_sensor_matrix is None: return ..., 204
ReaderCheck(r) ==
    /\ mpc = "run"
    /\ rpc[r] = "idle"
    /\ IF latest_sensor_matrix = None
          THEN /\ response' = [response EXCEPT ![r] = [status |-> 204, matrix |-> None, timestamp |-> None]]
               /\ rpc' = [rpc EXCEPT ![r] = "done"]
          ELSE /\ rpc' = [rpc EXCEPT ![r] = "build"]
               /\ UNCHANGED response
    /\ UNCHANGED << now, outsideVars, mainVars, data_buffer, latest_sensor_matrix, listenerVars,
                    decoderVars, inLog >>

\* jsonify({"timestamp": ..., "matrix": latest_sensor_matrix, ...}); return response
ReaderBuild(r) ==
    /\ rpc[r] = "build"
    /\ response' = [response EXCEPT ![r] =
           [status |-> 200, matrix |-> latest_sensor_matrix, timestamp |-> Some(now)]]
    /\ rpc' = [rpc EXCEPT ![r] = "done"]
    /\ UNCHANGED << now, outsideVars, mainVars, data_buffer, latest_sensor_matrix, listenerVars,
                    decoderVars, inLog >>

\* the response has gone to the client and the request thread has ended
ReaderReturn(r) ==
    /\ rpc[r] = "done"
    /\ rpc' = [rpc EXCEPT ![r] = "idle"]
    /\ response' = [response EXCEPT ![r] = NoResponse]
    /\ UNCHANGED << now, outsideVars, mainVars, data_buffer, latest_sensor_matrix, listenerVars,
                    decoderVars, inLog >>

Reader == \E r \in Readers : ReaderCheck(r) \/ ReaderBuild(r) \/ ReaderReturn(r)

(***************************************************************************)
(* __main__                                                                *)
(***************************************************************************)
\* listener = threading.Thread(target=udp_listener_thread); listener.start()
MainStartListener ==
    /\ mpc = "start_listener"
    /\ lpc' = "bind"
    /\ mpc' = "start_processor"
    /\ UNCHANGED << now, outsideVars, stop_listener, data_buffer, latest_sensor_matrix, sock,
                    l_binary_data, sent, decoderVars, readerVars, inLog >>

\* processor = threading.Thread(target=process_buffer_thread); processor.start()
MainStartProcessor ==
    /\ mpc = "start_processor"
    /\ dpc' = "loop"
    /\ mpc' = "run"
    /\ UNCHANGED << now, outsideVars, stop_listener, data_buffer, latest_sensor_matrix, listenerVars,
                    p_binary_data, sensor_array_scaled, sensor_array, sample_count,
                    outLog, timeLog, heap, latest_id, readerVars, inLog >>

\* app.run(debug=False, port=5000) returns or raises; finally: stop_listener.set()
MainShutdown ==
    /\ mpc = "run"
    /\ stop_listener' = TRUE
    /\ mpc' = "join_listener"
    /\ UNCHANGED << now, outsideVars, data_buffer, latest_sensor_matrix, listenerVars, decoderVars,
                    readerVars, inLog >>

\* listener.join(1): the thread has ended, or one second has passed
MainJoinListener ==
    /\ mpc = "join_listener"
    /\ mpc' = "join_processor"
    /\ UNCHANGED << now, outsideVars, stop_listener, data_buffer, latest_sensor_matrix, listenerVars,
                    decoderVars, readerVars, inLog >>

Ended(pc) == IF pc \in {"unstarted", "done"} THEN pc ELSE "killed"

\* processor.join(1); print("Application shutting down."); the interpreter exits
\* and the daemon threads that are still running end with it
MainJoinProcessorExit ==
    /\ mpc = "join_processor"
    /\ mpc' = "exited"
    /\ lpc' = Ended(lpc)
    /\ dpc' = Ended(dpc)
    /\ rpc' = [r \in Readers |-> IF rpc[r] = "build" THEN "idle" ELSE rpc[r]]
    /\ UNCHANGED << now, outsideVars, stop_listener, data_buffer, latest_sensor_matrix, sock,
                    l_binary_data, sent, p_binary_data, sensor_array_scaled,
                    sensor_array, sample_count, outLog, timeLog, heap, latest_id,
                    response, inLog >>

Main ==
    \/ MainStartListener
    \/ MainStartProcessor
    \/ MainShutdown
    \/ MainJoinListener
    \/ MainJoinProcessorExit

Next == Main \/ Listener \/ Decoder \/ Reader

Spec == Init /\ [][Next]_vars

(***************************************************************************)
(* Scheduling.  A started thread that can take a step of its own takes it  *)
(* eventually: recvfrom returns after its 0.5 s timeout, get after 0.1 s.  *)
(* The arrival of a datagram and a socket error are the network's doing    *)
(* and nothing makes them happen.  The main thread starts both threads;    *)
(* then it may serve for ever, and no property below needs its shutdown    *)
(* path to be taken.                                                       *)
(***************************************************************************)
MainStartup == MainStartListener \/ MainStartProcessor

ListenerProgress ==
    \/ ListenerBind
    \/ ListenerLoop
    \/ ListenerRecvTimeout
    \/ ListenerCheck
    \/ ListenerClose

LiveSpec ==
    Spec /\ WF_vars(MainStartup) /\ WF_vars(ListenerProgress) /\ WF_vars(Decoder)

(***************************************************************************)
(* Time.  Only get_latest_matrix reads the clock (datetime.now() in the     *)
(* response; the other calls only print), and no guard depends on it.      *)
(* The clock stands still in Spec, so a property that names neither now    *)
(* nor a timestamp is the same with and without Tick; TimedSpec is the     *)
(* pipeline with the clock running.                                        *)
(***************************************************************************)
Tick ==
    /\ now < MaxTime
    /\ now' = now + 1
    /\ UNCHANGED << outsideVars, mainVars, data_buffer, latest_sensor_matrix, listenerVars,
                    decoderVars, readerVars, inLog >>

TimedNext == Next \/ Tick

TimedSpec == Init /\ [][TimedNext]_vars

(***************************************************************************)
(* The decoder as a unit.  data_buffer and stop_listener are module         *)
(* globals (the test module imports data_buffer), so a harness can start   *)
(* process_buffer_thread alone, put any bytes object on the queue, call    *)
(* the /latest_matrix route and set stop_listener.                         *)
(***************************************************************************)
HarnessBuffers ==
    Frames \cup { Pack(MixedSamples), Zeros(1), Pack(PeakSamples) \o <<7>> }

HarnessInit ==
    /\ mpc = "run"
    /\ stop_listener = FALSE
    /\ data_buffer = << >>
    /\ latest_sensor_matrix = None
    /\ lpc = "unstarted"
    /\ sock = "none"
    /\ l_binary_data = None
    /\ dpc = "loop"
    /\ p_binary_data = None
    /\ sensor_array_scaled = None
    /\ sensor_array = None
    /\ sample_count = 0
    /\ rpc = [r \in Readers |-> "idle"]
    /\ response = [r \in Readers |-> NoResponse]
    /\ sent = None
    /\ inLog = << >>
    /\ outLog = << >>
    /\ timeLog = << >>
    /\ heap = << >>
    /\ latest_id = 0
    /\ now = 0
    /\ sender_array_scaled = None
    /\ synth_response = NoSynthResponse

HarnessPut ==
    /\ Len(inLog) < MaxFrames
    /\ \E d \in HarnessBuffers :
          /\ data_buffer' = Append(data_buffer, d)
          /\ inLog' = Append(inLog, d)
    /\ UNCHANGED << now, outsideVars, mainVars, latest_sensor_matrix, listenerVars, decoderVars,
                    readerVars >>

HarnessStop ==
    /\ mpc = "run"
    /\ stop_listener' = TRUE
    /\ mpc' = "stopped"
    /\ UNCHANGED << now, outsideVars, data_buffer, latest_sensor_matrix, listenerVars, decoderVars,
                    readerVars, inLog >>

HarnessNext == HarnessPut \/ HarnessStop \/ Decoder \/ Reader

HarnessSpec == HarnessInit /\ [][HarnessNext]_vars

LiveHarnessSpec == HarnessSpec /\ WF_vars(Decoder)

(***************************************************************************)
(* The codec end to end: generate_and_send_udp packs one array, the buffer *)
(* goes on data_buffer and process_buffer_thread decodes it.  The arrays   *)
(* hold one value at one index and another value everywhere else, the      *)
(* values being the ends of the int16 range, a negative, zero, the         *)
(* sender's largest value, and the first value struct.pack refuses.        *)
(***************************************************************************)
CodecValues == {INT16_MIN, -15, 0, 1000, INT16_MAX, INT16_MAX + 1}

CodecArrays ==
    { [i \in 1..EXPECTED_ARRAY_SIZE |-> IF i = k THEN a ELSE b] :
          k \in 1..EXPECTED_ARRAY_SIZE, a \in CodecValues, b \in CodecValues }

CodecInit ==
    /\ mpc = "run"
    /\ stop_listener = FALSE
    /\ data_buffer = << >>
    /\ latest_sensor_matrix = None
    /\ lpc = "unstarted"
    /\ sock = "none"
    /\ l_binary_data = None
    /\ dpc = "loop"
    /\ p_binary_data = None
    /\ sensor_array_scaled = None
    /\ sensor_array = None
    /\ sample_count = 0
    /\ rpc = [r \in Readers |-> "idle"]
    /\ response = [r \in Readers |-> NoResponse]
    /\ sent = None
    /\ inLog = << >>
    /\ outLog = << >>
    /\ timeLog = << >>
    /\ heap = << >>
    /\ latest_id = 0
    /\ now = 0
    /\ sender_array_scaled \in {Some(a) : a \in CodecArrays}
    /\ synth_response = NoSynthResponse

\* binary_data = struct.pack(FORMAT_STRING, *sensor_array_scaled); sock.sendto(...)
\* except struct.error: print, and nothing is sent
SenderPack ==
    /\ inLog = << >>
    /\ PackOk(sender_array_scaled[1])
    /\ data_buffer' = Append(data_buffer, Pack(sender_array_scaled[1]))
    /\ inLog' = Append(inLog, Pack(sender_array_scaled[1]))
    /\ UNCHANGED << now, outsideVars, mainVars, latest_sensor_matrix, listenerVars,
                    decoderVars, readerVars >>

CodecNext == SenderPack \/ Decoder

CodecSpec == CodecInit /\ [][CodecNext]_vars

(***************************************************************************)
(* send_sensor_data, the /sensor_data route.  It shares no state with the  *)
(* pipeline.  random.random() returns a float k / 2^53 in [0.0, 1.0); the  *)
(* model draws k / RandomDen from a coarser grid of the same interval.     *)
(***************************************************************************)
RandomDen == 2^20

\* the draws: the ends of [0.0, 1.0), the middle, and the neighbours of the steps
\* 0 -> 1 and 255 -> 256 of int(value)
RandomDraws == {0, 1, 1049, 268435, 268436, 524288, RandomDen - 1}

\* int(random.random() * 65536): the whole range of an unsigned short
SyntheticValueFullScale(k) == k \div (RandomDen \div 65536)

\* value = random.random() * 1000; int(value)
SyntheticValue(k) == (k * 1000) \div RandomDen

SyntheticDrawArrays ==
    { [i \in 1..EXPECTED_ARRAY_SIZE |-> IF i = k THEN a ELSE b] :
          k \in 1..EXPECTED_ARRAY_SIZE, a \in RandomDraws, b \in RandomDraws }

\* the whole handler: generate, struct.pack (struct.error: 500), make_response
SendSensorData ==
    /\ \E draws \in SyntheticDrawArrays :
          LET values == [i \in 1..EXPECTED_ARRAY_SIZE |-> SyntheticValue(draws[i])]
          IN  synth_response' =
                  IF PackOk(values)
                     THEN [status |-> 200, body |-> Some(Pack(values))]
                     ELSE [status |-> 500, body |-> None]
    /\ UNCHANGED << now, sender_array_scaled, mainVars, data_buffer,
                    latest_sensor_matrix, listenerVars, decoderVars, readerVars, inLog >>

SynthSpec == Init /\ [][SendSensorData]_vars

(***************************************************************************)
(* Properties                                                              *)
(***************************************************************************)
FrameSized(buf) == Len(buf) = EXPECTED_SIZE_BYTES

QueueHoldsFramesOnly ==
    /\ \A i \in 1..Len(data_buffer) : FrameSized(data_buffer[i])
    /\ p_binary_data # None => FrameSized(p_binary_data[1])

\* the listener's step that ends the handling of a datagram that was sent with a
\* length other than EXPECTED_SIZE_BYTES
BadSizeStep ==
    /\ lpc = "check"
    /\ lpc' = "loop"
    /\ ~FrameSized(sent[1])

\* C1: a datagram whose length differs from EXPECTED_SIZE_BYTES leaves data_buffer
\* and latest_sensor_matrix as they were, and every buffer in data_buffer or popped
\* by the decoder has exactly EXPECTED_SIZE_BYTES bytes.
C1_DiscardOnBadSize ==
    /\ []QueueHoldsFramesOnly
    /\ [][BadSizeStep => /\ data_buffer' = data_buffer
                         /\ latest_sensor_matrix' = latest_sensor_matrix
                         /\ inLog' = inLog]_vars

C1_Witness ==
    /\ lpc = "check"
    /\ Len(sent[1]) = EXPECTED_SIZE_BYTES + 1
    /\ p_binary_data # None
    /\ data_buffer # << >>

\* the decoder has published at least once
Published == \E i \in 1..Len(outLog) : outLog[i] # None

\* C2: latest_sensor_matrix is None exactly until the first publish, never becomes
\* None again, and a request answers 204 only while nothing has been published.
C2_Absence ==
    /\ []((latest_sensor_matrix = None) <=> ~Published)
    /\ [][latest_sensor_matrix # None => latest_sensor_matrix' # None]_vars
    /\ [][\A r \in Readers :
            (response[r].status # 204 /\ response'[r].status = 204)
                => ~Published]_vars

C2_Witness ==
    /\ Len(outLog) >= 2
    /\ latest_sensor_matrix # None
    /\ stop_listener
    /\ dpc = "done"
    /\ \E r \in Readers : response[r].status = 200

\* C3: the decoder's outcomes follow the order of the puts: the i-th outcome is the
\* decode of the i-th frame put, latest_sensor_matrix is the last outcome, and once
\* every frame put is decoded it is the decode of the last frame put.
C3_Ordering ==
    /\ Len(outLog) <= Len(inLog)
    /\ \A i \in 1..Len(outLog) : outLog[i] = Decode(inLog[i])
    /\ latest_sensor_matrix = IF outLog = << >> THEN None ELSE outLog[Len(outLog)]
    /\ (inLog # << >> /\ Len(outLog) = Len(inLog))
          => latest_sensor_matrix = Decode(inLog[Len(inLog)])

C3_Witness ==
    /\ Len(inLog) >= 2
    /\ Len(outLog) = Len(inLog)
    /\ inLog[Len(inLog) - 1] # inLog[Len(inLog)]
    /\ latest_sensor_matrix = Decode(inLog[Len(inLog)])
    /\ latest_sensor_matrix # Decode(inLog[Len(inLog) - 1])


Stopped == {"done", "killed"}

\* C4: once stop_listener is set both loops end, whatever data_buffer holds and with
\* no datagram arriving; no thread stays for ever in recvfrom, put or get.
C4_Shutdown ==
    /\ stop_listener ~> (lpc \in Stopped /\ dpc \in Stopped)
    /\ []<>(lpc # "recv")
    /\ []<>(lpc # "check")
    /\ []<>(dpc # "get")

C4_Witness ==
    /\ stop_listener
    /\ mpc = "join_listener"
    /\ lpc = "done"
    /\ dpc = "done"
    /\ data_buffer # << >>

IsGridOfPut(m) ==
    /\ m # None
    /\ Len(m[1]) = EXPECTED_ARRAY_SIZE
    /\ \E i \in 1..Len(inLog) : m = Decode(inLog[i])

\* C5: every matrix a request returns, and every value of latest_sensor_matrix, is
\* in all of its elements the decode of one frame that was put on data_buffer.
C5_NoTornRead ==
    /\ latest_sensor_matrix # None => IsGridOfPut(latest_sensor_matrix)
    /\ \A r \in Readers : response[r].status = 200 => IsGridOfPut(response[r].matrix)

C5_Witness ==
    \E r \in Readers :
        /\ response[r].status = 200
        /\ Len(outLog) >= 2
        /\ response[r].matrix # latest_sensor_matrix

Float(neg, whole, tenth) == [neg |-> neg, whole |-> whole, tenth |-> tenth]

ZeroFrame == [k \in 1..EXPECTED_SIZE_BYTES |-> 0]

\* element 0 = 1000 = 0x03E8, low byte first
PeakFrame == [k \in 1..EXPECTED_SIZE_BYTES |-> IF k = 1 THEN 232 ELSE IF k = 2 THEN 3 ELSE 0]

ZeroGrid == [i \in 1..EXPECTED_ARRAY_SIZE |-> Float(FALSE, 0, 0)]

PeakGrid ==
    [i \in 1..EXPECTED_ARRAY_SIZE |-> IF i = 1 THEN Float(FALSE, 100, 0) ELSE Float(FALSE, 0, 0)]

\* nothing is in flight between the listener and the published matrix
Drained ==
    /\ inLog # << >>
    /\ data_buffer = << >>
    /\ l_binary_data = None
    /\ Len(outLog) = Len(inLog)

\* C6: while stop_listener is not set every frame put is eventually decoded and
\* published; once nothing is in flight latest_sensor_matrix is the decode of the
\* last frame put: all 0.0 for the all-zero frame, 100.0 then 0.0 for the peak frame.
C6_EndToEnd ==
    /\ [](Drained => /\ latest_sensor_matrix = Decode(inLog[Len(inLog)])
                     /\ inLog[Len(inLog)] = ZeroFrame
                           => latest_sensor_matrix = Some(ZeroGrid)
                     /\ inLog[Len(inLog)] = PeakFrame
                           => latest_sensor_matrix = Some(PeakGrid))
    /\ \A n \in 1..MaxFrames :
          (Len(inLog) >= n) ~>
              (stop_listener \/ (Len(outLog) >= n /\ outLog[n] = Decode(inLog[n])))

C6_Witness ==
    /\ ~stop_listener
    /\ Drained
    /\ Len(inLog) >= 2
    /\ inLog[Len(inLog) - 1] = ZeroFrame
    /\ inLog[Len(inLog)] = PeakFrame
    /\ latest_sensor_matrix = Some(PeakGrid)
    /\ \E r \in Readers : response[r].status = 200 /\ response[r].matrix = Some(PeakGrid)

BindFailed == lpc = "done" /\ sock = "open"

\* C7: once the bind has failed the listener loop does not run, the decoder is not
\* started, nothing is put on data_buffer and latest_sensor_matrix stays None.
C7_BindFailureStartsNothing ==
    [][BindFailed => /\ lpc' = "done"
                     /\ dpc = "unstarted" => dpc' = "unstarted"
                     /\ inLog' = inLog
                     /\ latest_sensor_matrix' = None]_vars

\* a capacity below the number of frames one run receives
QueueCapacity == MaxFrames - 1

\* C8: data_buffer never holds more than a fixed capacity of frames.
C8_BoundedQueue == Len(data_buffer) <= QueueCapacity

DecodeFailed == \E i \in 1..Len(outLog) : outLog[i] = None

\* C9: a decode that fails takes the decoder back to the head of its loop, and every
\* buffer put on data_buffer, before or after, still gets its own outcome while
\* stop_listener is not set: a frame is decoded and published.
C9_FailedDecodeContinues ==
    /\ [][outLog' = Append(outLog, None) => (dpc = "unpack" /\ dpc' = "loop")]_vars
    /\ [](\A i \in 1..Len(outLog) : outLog[i] = Decode(inLog[i]))
    /\ \A n \in 1..MaxFrames :
          (DecodeFailed /\ Len(inLog) >= n) ~>
              (stop_listener \/ (Len(outLog) >= n /\ outLog[n] = Decode(inLog[n])))

C9_Witness ==
    /\ ~stop_listener
    /\ Len(outLog) >= 2
    /\ outLog[Len(outLog) - 1] = None
    /\ outLog[Len(outLog)] # None
    /\ latest_sensor_matrix = outLog[Len(outLog)]
    /\ dpc = "get"

\* the decoder's step that ends the decode of a buffer of another length than
\* EXPECTED_SIZE_BYTES
BadLengthDecodeStep ==
    /\ dpc = "unpack"
    /\ dpc' \notin {"unpack", "killed"}
    /\ ~FrameSized(p_binary_data[1])

\* C10: decoding a buffer whose length is not EXPECTED_SIZE_BYTES fails, builds no
\* list and leaves latest_sensor_matrix as it was; what is published is always the
\* whole decode of a frame-sized buffer.
C10_InvalidLengthUnchanged ==
    /\ [][BadLengthDecodeStep => /\ outLog' = Append(outLog, None)
                                 /\ latest_sensor_matrix' = latest_sensor_matrix
                                 /\ sensor_array_scaled' = None
                                 /\ sensor_array' = None
                                 /\ sample_count' = sample_count]_vars
    /\ [](\A i \in 1..Len(outLog) : ~FrameSized(inLog[i]) => outLog[i] = None)
    /\ [](latest_sensor_matrix # None =>
             \E i \in 1..Len(inLog) :
                 /\ FrameSized(inLog[i])
                 /\ latest_sensor_matrix = Some(Unscale(Unpack(inLog[i]))))

C10_Witness ==
    /\ Len(outLog) >= 2
    /\ outLog[Len(outLog)] = None
    /\ outLog[Len(outLog) - 1] # None
    /\ latest_sensor_matrix = outLog[Len(outLog) - 1]
    /\ Len(inLog[Len(outLog)]) > EXPECTED_SIZE_BYTES

\* C11: the timestamp of a 200 response is the clock reading at which the matrix it
\* carries was published, whenever the request is made.
C11_DecodeTimestamp ==
    \A r \in Readers :
        response[r].status = 200 =>
            \E i \in 1..Len(outLog) :
                /\ outLog[i] = response[r].matrix
                /\ response[r].timestamp = Some(timeLog[i])

\* the listener has left its loop on a socket error: it is past the loop with a bound
\* socket and stop_listener is not set
ListenerFailed ==
    /\ lpc \in {"close", "done"}
    /\ sock \in {"bound", "closed"}
    /\ ~stop_listener

Successes == {i \in 1..Len(outLog) : outLog[i] # None}

LastDecoded ==
    IF Successes = {} THEN None
    ELSE outLog[CHOOSE i \in Successes : \A j \in Successes : j <= i]

\* C12: once the listener has left its loop on a socket error it puts nothing more and
\* is not started again; the decoder does not end, decodes every frame still queued,
\* and a request returns the last decoded matrix, or 204 when there is none.
C12_ListenerFailureIsolated ==
    /\ [][ListenerFailed => /\ lpc' \in {"close", "done"}
                            /\ inLog' = inLog
                            /\ dpc' \notin Stopped]_vars
    /\ [][\A r \in Readers :
            (ListenerFailed /\ rpc[r] # "done" /\ rpc'[r] = "done") =>
                IF LastDecoded = None
                   THEN response'[r].status = 204
                   ELSE /\ response'[r].status = 200
                        /\ response'[r].matrix = LastDecoded]_vars
    /\ ListenerFailed ~>
          (stop_listener \/ (/\ data_buffer = << >>
                             /\ Len(outLog) = Len(inLog)
                             /\ \A i \in 1..Len(inLog) : outLog[i] = Decode(inLog[i])
                             /\ latest_sensor_matrix = LastDecoded))

C12_Witness ==
    /\ ListenerFailed
    /\ lpc = "done"
    /\ data_buffer # << >>
    /\ dpc = "publish"
    /\ \E r \in Readers : response[r].status = 204

\* the matrix is one whole list the decoder published
IsStoredGrid(x) ==
    /\ x # None
    /\ Len(x[1]) = EXPECTED_ARRAY_SIZE
    /\ \E i \in 1..Len(outLog) : x = outLog[i]

\* C13: a request answers 204 exactly when latest_sensor_matrix is None at its test,
\* and otherwise goes on to answer 200 with one whole published list of
\* EXPECTED_ARRAY_SIZE elements, whatever the decoder does meanwhile.
C13_ReadHandlerResult ==
    /\ [][\A r \in Readers :
            (rpc[r] = "idle" /\ rpc'[r] # "idle") =>
                IF latest_sensor_matrix = None
                   THEN rpc'[r] = "done" /\ response'[r].status = 204
                   ELSE rpc'[r] = "build" /\ response'[r] = response[r]]_vars
    /\ [][\A r \in Readers :
            (rpc[r] = "build" /\ rpc'[r] = "done") =>
                /\ response'[r].status = 200
                /\ IsStoredGrid(response'[r].matrix)]_vars
    /\ [](\A r \in Readers :
            /\ response[r].status \in {0, 200, 204}
            /\ response[r].status = 200 => IsStoredGrid(response[r].matrix)
            /\ response[r].status = 204 => response[r].matrix = None)

C13_Witness ==
    \E r \in Readers :
        /\ rpc[r] = "done"
        /\ response[r].status = 200
        /\ response[r].matrix = latest_sensor_matrix
        /\ dpc = "publish"
        /\ sensor_array # latest_sensor_matrix

InRange(values) ==
    \A i \in 1..Len(values) : values[i] >= -32768 /\ values[i] <= 32767

\* the Grid that belongs to an array of scaled samples, element by element
GridOf(values) ==
    [i \in 1..Len(values) |->
        CASE values[i] = -32768 -> Float(TRUE, 3276, 8)
          [] values[i] = -15 -> Float(TRUE, 1, 5)
          [] values[i] = 0 -> Float(FALSE, 0, 0)
          [] values[i] = 1000 -> Float(FALSE, 100, 0)
          [] values[i] = 32767 -> Float(FALSE, 3276, 7)
          [] OTHER -> Div10(values[i])]

\* C14: an array of EXPECTED_ARRAY_SIZE integers within [-32768, 32767], packed by
\* the sender and decoded by the decoder, gives a list of EXPECTED_ARRAY_SIZE
\* elements whose element i is values[i] / 10, in the same order.
C14_RoundTrip ==
    /\ (sender_array_scaled # None /\ InRange(sender_array_scaled[1]))
          => /\ PackOk(sender_array_scaled[1])
             /\ Decode(Pack(sender_array_scaled[1])) = Some(GridOf(sender_array_scaled[1]))
    /\ \A n \in 1..Len(outLog) :
          /\ outLog[n] # None
          /\ Len(outLog[n][1]) = EXPECTED_ARRAY_SIZE
          /\ \A i \in 1..EXPECTED_ARRAY_SIZE :
                outLog[n][1][i] = GridOf(sender_array_scaled[1])[i]
    /\ latest_sensor_matrix # None
          => latest_sensor_matrix = Some(GridOf(sender_array_scaled[1]))

C14_Witness ==
    /\ latest_sensor_matrix # None
    /\ Len(outLog) = 1
    /\ \E i, j \in 1..EXPECTED_ARRAY_SIZE :
          /\ sender_array_scaled[1][i] = -32768
          /\ sender_array_scaled[1][j] = 32767
          /\ latest_sensor_matrix[1][i] = Float(TRUE, 3276, 8)
          /\ latest_sensor_matrix[1][j] = Float(FALSE, 3276, 7)

\* C15: every response of /sensor_data is a buffer of exactly EXPECTED_SIZE_BYTES
\* bytes that unpacks as EXPECTED_ARRAY_SIZE signed shorts, each within 0..1000, and
\* struct.pack never fails.
C15_SyntheticFrameValid ==
    synth_response # NoSynthResponse =>
        /\ synth_response.status = 200
        /\ synth_response.body # None
        /\ Len(synth_response.body[1]) = EXPECTED_SIZE_BYTES
        /\ \A k \in 1..EXPECTED_SIZE_BYTES : synth_response.body[1][k] \in 0..255
        /\ Decode(synth_response.body[1]) # None
        /\ Len(Unpack(synth_response.body[1])) = EXPECTED_ARRAY_SIZE
        /\ \A i \in 1..EXPECTED_ARRAY_SIZE :
              /\ Unpack(synth_response.body[1])[i] >= 0
              /\ Unpack(synth_response.body[1])[i] <= 1000

C15_Witness ==
    /\ synth_response.status = 200
    /\ \E i, j \in 1..EXPECTED_ARRAY_SIZE :
          /\ Unpack(synth_response.body[1])[i] = 999
          /\ Unpack(synth_response.body[1])[j] = 256

\* C16: the decoder returns only once it has decoded and published every frame in
\* data_buffer: at the step in which it returns the queue is empty and every frame
\* put has its outcome.
C16_DrainOnShutdown ==
    [][(dpc # "done" /\ dpc' = "done") => /\ data_buffer = << >>
                                          /\ Len(outLog) = Len(inLog)]_vars

\* C17: whenever udp_listener_thread has returned, the socket it created is closed.
C17_SocketRelease ==
    lpc = "done" => sock = "closed"

\* C18: no list object is changed once it is built; a publish binds the global to
\* the list built last, one it was never bound to before; and the matrix of a 200
\* response stays what one of the published lists holds, whatever is published later.
C18_GridNeverChanged ==
    /\ [][/\ Len(heap') >= Len(heap)
           /\ \A k \in 1..Len(heap) : heap'[k] = heap[k]]_vars
    /\ [][latest_id' # latest_id => /\ dpc = "publish"
                                    /\ heap' = heap
                                    /\ latest_id' = Len(heap)
                                    /\ latest_id' > latest_id]_vars
    /\ [](latest_sensor_matrix = IF latest_id = 0 THEN None ELSE Some(heap[latest_id]))
    /\ [](\A r \in Readers :
            response[r].status = 200 =>
                \E k \in 1..latest_id : response[r].matrix = Some(heap[k]))

C18_Witness ==
    \E r \in Readers :
        /\ response[r].status = 200
        /\ latest_id = 2
        /\ response[r].matrix = Some(heap[1])
        /\ heap[1] # heap[2]

\* C19: stop_listener changes only in the main thread's step from serving to joining,
\* from not set to set; no step of the listener, the decoder or a request changes it,
\* and once set it stays set.
C19_StopMonotonic ==
    /\ [][stop_listener => stop_listener']_vars
    /\ [][stop_listener' # stop_listener => /\ ~stop_listener
                                            /\ mpc = "run"
                                            /\ mpc' = "join_listener"
                                            /\ lpc' = lpc
                                            /\ dpc' = dpc
                                            /\ rpc' = rpc]_vars
    /\ [](stop_listener <=> mpc \in {"join_listener", "join_processor", "exited"})

C19_Witness ==
    /\ stop_listener
    /\ mpc = "exited"
    /\ lpc = "done"
    /\ sock = "closed"
    /\ dpc = "done"
    /\ Len(outLog) >= 1
    /\ \E r \in Readers : response[r].status = 200

\* C20: while stop_listener is not set the decoder has not returned, whatever it
\* popped and whichever decodes failed; it returns only from its loop test, with
\* stop_listener set.
C20_DecoderEndsOnlyOnStop ==
    /\ [](~stop_listener => dpc \notin Stopped)
    /\ [][(dpc # "done" /\ dpc' = "done") => (stop_listener /\ dpc = "loop")]_vars

C20_Witness ==
    /\ ~stop_listener
    /\ dpc = "get"
    /\ data_buffer = << >>
    /\ Len(outLog) >= 2
    /\ outLog[1] = None
    /\ outLog[2] = None
    /\ Len(inLog[1]) < EXPECTED_SIZE_BYTES
    /\ Len(inLog[2]) > EXPECTED_SIZE_BYTES
====
